---- MODULE Spec2Model ----
(***************************************************************************)
(* Model of langchain/chains/combine_documents/map_reduce.py:              *)
(*   - the legacy MapReduceDocumentsChain (construction validators,        *)
(*     combine_docs and acombine_docs),                                    *)
(*   - the LCEL factories create_map_documents_chain and                   *)
(*     create_map_reduce_documents_chain.                                  *)
(* Python dicts are functions over a finite set of string keys, lists are  *)
(* sequences, a Document is a record [page_content, metadata].             *)
(***************************************************************************)
EXTENDS Naturals, Sequences, FiniteSets, TLC

VARIABLES
    docs,                       \* the caller's document list
    kwargs,                     \* the caller's extra fields (**kwargs / extra input keys)
    llmResp,                    \* the model's answer to the i-th invocation, or ERR
    document_variable_name,     \* MapReduceDocumentsChain.document_variable_name
    return_intermediate_steps,  \* MapReduceDocumentsChain.return_intermediate_steps
    token_max,                  \* combine_docs(token_max=...)
    reduceResp,                 \* what reduce_documents_chain.combine_docs answers
    run,                        \* per variant (sync/async): the call in progress
    document_prompt,            \* create_map_documents_chain(document_prompt=...)
    pipe,                       \* per composed LCEL chain: the invocation in progress
    raw,                        \* the keyword arguments MapReduceDocumentsChain(...) got
    values,                     \* the values dict the root validators rewrite
    cpc,                        \* the validator construction has reached
    cerr,                       \* the error construction raised
    chain,                      \* the constructed chain object
    accessed                    \* what each backward-compatibility accessor last gave

vars == <<docs, kwargs, llmResp, document_variable_name,
          return_intermediate_steps, token_max, reduceResp, run,
          document_prompt, pipe, raw, values, cpc, cerr, chain, accessed>>

ctorVars == <<raw, values, cpc, cerr, chain, accessed>>

legacyInputs == <<docs, kwargs, llmResp, document_variable_name,
                  return_intermediate_steps, token_max, reduceResp>>

(* ------------------------------ bounds --------------------------------- *)

MaxDocs == 2

(* ------------------------------ values --------------------------------- *)

ERR == "ERR"
None == "None"
Outputs == {"o1", "o2"}
OUTPUT_KEY == "text"
DOCUMENTS_KEY == "context"

Document(page_content, metadata) ==
    [page_content |-> page_content, metadata |-> metadata]

DocSet == {Document("a", "m1"), Document("b", "m2")}

SeqsUpTo(S, n) == UNION {[1..k -> S] : k \in 0..n}

EmptyDict == [k \in {} |-> None]

\* Python's None where a chain is expected
NoneValue == [kind |-> "NoneType"]

\* no chain object has been made
NoChain == <<>>

\* {**a, **b}: the keys of b win
Merge(a, b) ==
    [k \in (DOMAIN a) \cup (DOMAIN b) |-> IF k \in DOMAIN b THEN b[k] ELSE a[k]]

KwargsSet ==
    { EmptyDict,
      ("question" :> "q"),
      (DOCUMENTS_KEY :> "x"),
      (DOCUMENTS_KEY :> "x") @@ ("question" :> "q") }

(* ------------------- legacy chain: combine_docs ------------------------ *)

Variants == {"sync", "async"}

SyncRecordBodyLast(d) ==
    Merge(kwargs, (document_variable_name :> d.page_content))

\* {self.document_variable_name: d.page_content, **kwargs}
SyncRecord(d) ==
    Merge((document_variable_name :> d.page_content), kwargs)

AsyncRecordNoKwargs(d) ==
    Merge(EmptyDict, (document_variable_name :> d.page_content))

\* {**{self.document_variable_name: d.page_content}, **kwargs}
AsyncRecord(d) ==
    Merge(Merge(EmptyDict, (document_variable_name :> d.page_content)), kwargs)

InputList(v) ==
    [i \in 1..Len(docs) |->
        IF v = "sync" THEN SyncRecord(docs[i]) ELSE AsyncRecord(docs[i])]

ResultDocFirstMetadata(i, r) == Document(r[OUTPUT_KEY], docs[1].metadata)

\* Document(page_content=r[question_result_key], metadata=docs[i].metadata)
ResultDoc(i, r) == Document(r[OUTPUT_KEY], docs[i].metadata)

ResultDocs(map_results) ==
    [i \in 1..Len(map_results) |-> ResultDoc(i, map_results[i])]

\* [r[question_result_key] for r in map_results]
IntermediateSteps(map_results) ==
    [i \in 1..Len(map_results) |-> map_results[i][OUTPUT_KEY]]

ExtraReturnDictSetDefault(extra, map_results) ==
    IF return_intermediate_steps
    THEN Merge(("intermediate_steps" :> IntermediateSteps(map_results)), extra)
    ELSE extra

\* if self.return_intermediate_steps: extra_return_dict["intermediate_steps"] = ...
ExtraReturnDict(extra, map_results) ==
    IF return_intermediate_steps
    THEN Merge(extra, ("intermediate_steps" :> IntermediateSteps(map_results)))
    ELSE extra

IdleRun ==
    [pc |-> "idle", input_list |-> <<>>, order |-> <<>>, map_results |-> <<>>,
     applyCalls |-> 0, reduceCalls |-> 0, reduce_args |-> <<>>,
     ret |-> <<>>, error |-> <<>>]

Busy(v) == run[v].pc \in {"map", "reduce"}

Range(s) == {s[j] : j \in DOMAIN s}

\* the invocations of apply that have completed so far
Completed(v) == Range(run[v].order)

\* apply / aapply returned its list: lines 406-414 build result_docs and call
\* the reduce chain with them, token_max and the pass-through kwargs
OnApplyReturn(r) ==
    [r EXCEPT !.pc = "reduce",
              !.reduceCalls = @ + 1,
              !.reduce_args = [docs |-> ResultDocs(r.map_results),
                               token_max |-> token_max,
                               kwargs |-> kwargs]]

OnApplyErrorSwallowed(r, i) ==
    [r EXCEPT !.order = Append(@, i), !.map_results[i] = (OUTPUT_KEY :> "")]

\* apply / aapply raised: nothing in combine_docs catches it, the call ends
OnApplyError(r, i) ==
    [r EXCEPT !.pc = "failed", !.error = <<"llm_chain", i>>]

\* the reduce chain returned: lines 415-418
OnReduceReturn(r, answer) ==
    [r EXCEPT !.pc = "done",
              !.ret = [result |-> answer.result,
                       extra |-> ExtraReturnDict(answer.extra, r.map_results)]]

\* the reduce chain raised: nothing catches it
OnReduceError(r) ==
    [r EXCEPT !.pc = "failed", !.error = <<"reduce">>]

ReduceAnswers ==
    { [ok |-> TRUE, result |-> "summary", extra |-> EmptyDict],
      [ok |-> TRUE, result |-> "summary",
       extra |-> ("intermediate_steps" :> <<"stale">>)],
      [ok |-> FALSE, result |-> None, extra |-> EmptyDict] }

InitLegacy ==
    /\ docs \in SeqsUpTo(DocSet, MaxDocs)
    /\ kwargs \in KwargsSet
    /\ llmResp \in [1..Len(docs) -> Outputs \cup {ERR}]
    /\ document_variable_name \in {DOCUMENTS_KEY, "text"}
    /\ return_intermediate_steps \in BOOLEAN
    /\ token_max \in {None, "3000"}
    /\ reduceResp \in ReduceAnswers
    /\ run = [v \in Variants |-> IdleRun]
    /\ document_prompt = None
    /\ pipe = <<>>
    /\ raw = <<>> /\ values = <<>> /\ cpc = None /\ cerr = None /\ chain = NoChain
    /\ accessed = <<>>

\* combine_docs / acombine_docs is entered: the input list is built and handed
\* to llm_chain.apply / aapply (the two calls are made one after the other,
\* in either order, on the same chain and arguments)
CallApply(v) ==
    /\ run[v].pc = "idle"
    /\ \A w \in Variants : ~Busy(w)
    /\ run' = [run EXCEPT ![v].pc = "map",
                          ![v].input_list = InputList(v),
                          ![v].map_results = [i \in 1..Len(docs) |-> EmptyDict],
                          ![v].applyCalls = @ + 1]
    /\ UNCHANGED <<legacyInputs, document_prompt, pipe, ctorVars>>

\* inside apply: the invocation for record i completes with the model's text
InvokeOk(v, i) ==
    /\ run[v].pc = "map"
    /\ i \in (1..Len(docs)) \ Completed(v)
    /\ llmResp[i] # ERR
    /\ run' = [run EXCEPT ![v].order = Append(@, i),
                          ![v].map_results[i] = (OUTPUT_KEY :> llmResp[i])]
    /\ UNCHANGED <<legacyInputs, document_prompt, pipe, ctorVars>>

\* inside apply: the invocation for record i raises; apply re-raises
InvokeFail(v, i) ==
    /\ run[v].pc = "map"
    /\ i \in (1..Len(docs)) \ Completed(v)
    /\ llmResp[i] = ERR
    /\ run' = [run EXCEPT ![v] = OnApplyError(@, i)]
    /\ UNCHANGED <<legacyInputs, document_prompt, pipe, ctorVars>>

\* apply has returned map_results: result_docs is built and handed to
\* reduce_documents_chain.combine_docs / acombine_docs
CallReduce(v) ==
    /\ run[v].pc = "map"
    /\ Completed(v) = 1..Len(docs)
    /\ run' = [run EXCEPT ![v] = OnApplyReturn(@)]
    /\ UNCHANGED <<legacyInputs, document_prompt, pipe, ctorVars>>

\* the reduce chain returns (result, extra_return_dict)
ReduceReturn(v) ==
    /\ run[v].pc = "reduce"
    /\ reduceResp.ok
    /\ run' = [run EXCEPT ![v] = OnReduceReturn(@, reduceResp)]
    /\ UNCHANGED <<legacyInputs, document_prompt, pipe, ctorVars>>

\* the reduce chain raises
ReduceFail(v) ==
    /\ run[v].pc = "reduce"
    /\ ~reduceResp.ok
    /\ run' = [run EXCEPT ![v] = OnReduceError(@)]
    /\ UNCHANGED <<legacyInputs, document_prompt, pipe, ctorVars>>

NextLegacy ==
    \/ \E v \in Variants : CallApply(v)
    \/ \E v \in Variants : \E i \in 1..MaxDocs : InvokeOk(v, i)
    \/ \E v \in Variants : \E i \in 1..MaxDocs : InvokeFail(v, i)
    \/ \E v \in Variants : CallReduce(v)
    \/ \E v \in Variants : ReduceReturn(v)
    \/ \E v \in Variants : ReduceFail(v)

SpecLegacy == InitLegacy /\ [][NextLegacy]_vars

(* --------------------- LCEL: the factory functions --------------------- *)

\* the three chains composed by create_map_reduce_documents_chain, named by
\* their collapse_documents_chain argument
Pipes == {"none", "identity", "merge"}

\* RunnablePassthrough.assign(key=chain): the input with key set to the
\* chain's output
Assign(inputs, key, out) == Merge(inputs, (key :> out))

\* the document formatter: the default prompt "{page_content}" renders the
\* body alone, another prompt renders metadata fields with it
Render(doc) ==
    IF document_prompt = None THEN <<doc.page_content>>
    ELSE <<doc.metadata, doc.page_content>>

\* format_document_inputs_as_list: one record per document, the document
\* itself under DOCUMENTS_KEY, the other fields kept
FormatDocumentInputsAsList(inputs) ==
    [i \in 1..Len(inputs[DOCUMENTS_KEY]) |->
        Assign(inputs, DOCUMENTS_KEY, inputs[DOCUMENTS_KEY][i])]

\* format_document_inputs: the document under DOCUMENTS_KEY rendered to text
FormatDocumentInputs(inputs) ==
    Assign(inputs, DOCUMENTS_KEY, Render(inputs[DOCUMENTS_KEY]))

\* StrOutputParser: the text of the model's message
StrOutputParser(message) == message.content

CompileDocumentOwnBody(inputs) ==
    [out |-> Document(inputs[DOCUMENTS_KEY].page_content,
                      inputs[DOCUMENTS_KEY].metadata),
     source |-> inputs[DOCUMENTS_KEY]]

\* _compile_document: a new Document with the mapped body and the source
\* document's metadata; source is the source document as the call leaves it
CompileDocument(inputs) ==
    [out |-> Document(inputs["page_content"], inputs[DOCUMENTS_KEY].metadata),
     source |-> inputs[DOCUMENTS_KEY]]

\* map_doc_chain = assign_page_content | _compile_document, for one record
\* and the message the model answered it with
MapDocChain(inputs, message) ==
    CompileDocument(Assign(inputs, "page_content", StrOutputParser(message)))

\* the collapse_documents_chain argument: absent, a chain returning the
\* document list as it is, or a chain merging the documents into one
CollapseChain(p, inputs) ==
    IF p = "merge" /\ Len(inputs[DOCUMENTS_KEY]) > 1
    THEN <<Document("merged", inputs[DOCUMENTS_KEY][1].metadata)>>
    ELSE inputs[DOCUMENTS_KEY]

\* the reduce_documents_chain argument: its answer is a function of the
\* record it is handed
ReduceChain(inputs) == [reduced |-> inputs]

StepsCollapseFirst(p) ==
    IF p = "none" THEN <<"assign_mapped_docs", "reduce">>
    ELSE <<"assign_collapsed_docs", "assign_mapped_docs", "reduce">>

StepsCollapseOnly(p) ==
    IF p = "none" THEN <<"assign_mapped_docs", "reduce">>
    ELSE <<"assign_collapsed_docs", "reduce">>

\* create_map_reduce_documents_chain: the sequence it returns
Steps(p) ==
    IF p = "none" THEN <<"assign_mapped_docs", "reduce">>
    ELSE <<"assign_mapped_docs", "assign_collapsed_docs", "reduce">>

\* the caller's input record: the documents under DOCUMENTS_KEY and the
\* extra fields
Input == Merge(kwargs, (DOCUMENTS_KEY :> docs))

IdlePipe ==
    [pc |-> "idle", step |-> 0, value |-> <<>>, mapping |-> FALSE,
     per_doc |-> <<>>, order |-> <<>>, prompts |-> <<>>, mapped |-> <<>>,
     sources |-> <<>>, map_out |-> <<>>, collapse_in |-> <<>>,
     collapse_out |-> <<>>, reduce_in |-> <<>>, trace |-> <<>>,
     result |-> <<>>, error |-> <<>>]

CurrentStep(p) ==
    IF pipe[p].pc = "running" /\ pipe[p].step \in 1..Len(Steps(p))
    THEN Steps(p)[pipe[p].step] ELSE None

\* a step of the sequence has produced value: the next step, or the end
Advance(r, p, value) ==
    [r EXCEPT !.value = value,
              !.step = @ + 1,
              !.pc = IF r.step = Len(Steps(p)) THEN "done" ELSE "running",
              !.result = IF r.step = Len(Steps(p)) THEN value ELSE <<>>]

LCELKwargs ==
    { EmptyDict, ("question" :> "q"),
      ("question" :> "q") @@ ("page_content" :> "p") }

InitLCEL ==
    /\ docs \in SeqsUpTo(DocSet, MaxDocs)
    /\ kwargs \in LCELKwargs
    /\ llmResp \in [1..Len(docs) -> Outputs \cup {ERR}]
    /\ document_prompt \in {None, "{source}: {page_content}"}
    /\ reduceResp \in {a \in ReduceAnswers : a.extra = EmptyDict}
    /\ pipe = [p \in Pipes |-> IdlePipe]
    /\ document_variable_name = DOCUMENTS_KEY
    /\ return_intermediate_steps = FALSE
    /\ token_max = None
    /\ run = <<>>
    /\ raw = <<>> /\ values = <<>> /\ cpc = None /\ cerr = None /\ chain = NoChain
    /\ accessed = <<>>

lcelInputs == <<docs, kwargs, llmResp, document_prompt, reduceResp,
                document_variable_name, return_intermediate_steps,
                token_max, run, ctorVars>>

\* the composed chain is invoked on the caller's record (the chains are
\* invoked one after the other, in any order, on the same record)
Invoke(p) ==
    /\ pipe[p].pc = "idle"
    /\ \A q \in Pipes : pipe[q].pc # "running"
    /\ pipe' = [pipe EXCEPT ![p].pc = "running",
                            ![p].step = 1,
                            ![p].value = Input]
    /\ UNCHANGED lcelInputs

\* assign_mapped_docs starts map_documents_chain: format_as_list makes the
\* per-document records that map_doc_chain.map() works on
StartMap(p) ==
    /\ CurrentStep(p) = "assign_mapped_docs"
    /\ ~pipe[p].mapping
    /\ LET list == FormatDocumentInputsAsList(pipe[p].value) IN
       pipe' = [pipe EXCEPT ![p].mapping = TRUE,
                            ![p].per_doc = list,
                            ![p].order = <<>>,
                            ![p].prompts = [i \in DOMAIN list |-> <<>>],
                            ![p].mapped = [i \in DOMAIN list |-> <<>>],
                            ![p].sources = [i \in DOMAIN list |-> <<>>]]
    /\ UNCHANGED lcelInputs

\* map_doc_chain on the i-th record: the model answers with text
MapDoc(p, i) ==
    /\ CurrentStep(p) = "assign_mapped_docs"
    /\ pipe[p].mapping
    /\ i \in (DOMAIN pipe[p].per_doc) \ Range(pipe[p].order)
    /\ llmResp[i] # ERR
    /\ LET compiled == MapDocChain(pipe[p].per_doc[i], [content |-> llmResp[i]]) IN
       pipe' = [pipe EXCEPT ![p].order = Append(@, i),
                            ![p].prompts[i] = FormatDocumentInputs(pipe[p].per_doc[i]),
                            ![p].mapped[i] = compiled.out,
                            ![p].sources[i] = compiled.source]
    /\ UNCHANGED lcelInputs

\* map_doc_chain on the i-th record: the model raises, the chain ends
MapDocFail(p, i) ==
    /\ CurrentStep(p) = "assign_mapped_docs"
    /\ pipe[p].mapping
    /\ i \in (DOMAIN pipe[p].per_doc) \ Range(pipe[p].order)
    /\ llmResp[i] = ERR
    /\ pipe' = [pipe EXCEPT ![p].pc = "failed",
                            ![p].mapping = FALSE,
                            ![p].order = <<>>,
                            ![p].error = <<"map", i>>]
    /\ UNCHANGED lcelInputs

\* map_documents_chain returns its list; assign_mapped_docs writes it to the
\* document-list field
AssignMapped(p) ==
    /\ CurrentStep(p) = "assign_mapped_docs"
    /\ pipe[p].mapping
    /\ Range(pipe[p].order) = DOMAIN pipe[p].per_doc
    /\ pipe' = [pipe EXCEPT ![p] =
                   [Advance(@, p, Assign(@.value, DOCUMENTS_KEY, @.mapped))
                       EXCEPT !.mapping = FALSE,
                              !.order = <<>>,
                              !.map_out = pipe[p].mapped,
                              !.trace = Append(@, "map")]]
    /\ UNCHANGED lcelInputs

\* assign_collapsed_docs: the collapse chain's output is written to the
\* document-list field
AssignCollapsed(p) ==
    /\ CurrentStep(p) = "assign_collapsed_docs"
    /\ LET out == CollapseChain(p, pipe[p].value) IN
       pipe' = [pipe EXCEPT ![p] =
                   [Advance(@, p, Assign(@.value, DOCUMENTS_KEY, out))
                       EXCEPT !.collapse_in = pipe[p].value,
                              !.collapse_out = out,
                              !.trace = Append(@, "collapse")]]
    /\ UNCHANGED lcelInputs

\* reduce_documents_chain is handed the working record and answers
Reduce(p) ==
    /\ CurrentStep(p) = "reduce"
    /\ reduceResp.ok
    /\ pipe' = [pipe EXCEPT ![p] =
                   [Advance(@, p, ReduceChain(@.value))
                       EXCEPT !.reduce_in = pipe[p].value,
                              !.trace = Append(@, "reduce")]]
    /\ UNCHANGED lcelInputs

\* reduce_documents_chain is handed the working record and raises
ReduceRaises(p) ==
    /\ CurrentStep(p) = "reduce"
    /\ ~reduceResp.ok
    /\ pipe' = [pipe EXCEPT ![p].pc = "failed",
                            ![p].reduce_in = pipe[p].value,
                            ![p].trace = Append(@, "reduce"),
                            ![p].error = <<"reduce">>]
    /\ UNCHANGED lcelInputs

NextLCEL ==
    \/ \E p \in Pipes : Invoke(p)
    \/ \E p \in Pipes : StartMap(p)
    \/ \E p \in Pipes : \E i \in 1..MaxDocs : MapDoc(p, i)
    \/ \E p \in Pipes : \E i \in 1..MaxDocs : MapDocFail(p, i)
    \/ \E p \in Pipes : AssignMapped(p)
    \/ \E p \in Pipes : AssignCollapsed(p)
    \/ \E p \in Pipes : Reduce(p)
    \/ \E p \in Pipes : ReduceRaises(p)

SpecLCEL == InitLCEL /\ [][NextLCEL]_vars

(* ------------- legacy chain: construction (root validators) ------------ *)

MaxVars == 2

VarNames == {"context", "question"}

StuffChain(id) == [kind |-> "StuffDocumentsChain", id |-> id]

\* ReduceDocumentsChain(combine_documents_chain=..., collapse_documents_chain=...)
ReduceDocumentsChain(combine_chain, collapse_chain) ==
    [kind |-> "ReduceDocumentsChain",
     combine_documents_chain |-> combine_chain,
     collapse_documents_chain |-> collapse_chain]

LLMChain(input_variables) == [prompt |-> [input_variables |-> input_variables]]

\* values[key] = value
SetItem(d, key, value) == Merge(d, (key :> value))

\* del values[key]
Del(d, key) == [k \in (DOMAIN d) \ {key} |-> d[k]]

\* values.get(key)
Get(d, key) == IF key \in DOMAIN d THEN d[key] ELSE NoneValue

Ok(d) == [ok |-> TRUE, values |-> d, err |-> None]
Raise(e) == [ok |-> FALSE, values |-> <<>>, err |-> e]

GetReduceChainPreferNew(d) ==
    IF "combine_document_chain" \in DOMAIN d
    THEN IF "reduce_documents_chain" \in DOMAIN d
         THEN Ok(Del(Del(d, "combine_document_chain"), "collapse_document_chain"))
         ELSE Ok(Del(Del(SetItem(d, "reduce_documents_chain",
                                ReduceDocumentsChain(
                                    d["combine_document_chain"],
                                    Get(d, "collapse_document_chain"))),
                         "combine_document_chain"),
                     "collapse_document_chain"))
    ELSE Ok(d)

\* get_reduce_chain
GetReduceChain(d) ==
    IF "combine_document_chain" \in DOMAIN d
    THEN IF "reduce_documents_chain" \in DOMAIN d
         THEN Raise("ValueError: both reduce_documents_chain and combine_document_chain")
         ELSE Ok(Del(Del(SetItem(d, "reduce_documents_chain",
                                ReduceDocumentsChain(
                                    d["combine_document_chain"],
                                    Get(d, "collapse_document_chain"))),
                         "combine_document_chain"),
                     "collapse_document_chain"))
    ELSE Ok(d)

\* get_return_intermediate_steps
GetReturnIntermediateSteps(d) ==
    IF "return_map_steps" \in DOMAIN d
    THEN Ok(Del(SetItem(d, "return_intermediate_steps", d["return_map_steps"]),
                "return_map_steps"))
    ELSE Ok(d)

GetDefaultDocumentVariableNameFirst(d) ==
    IF "llm_chain" \notin DOMAIN d THEN Raise("KeyError: llm_chain")
    ELSE LET llm_chain_variables == d["llm_chain"].prompt.input_variables IN
         IF "document_variable_name" \notin DOMAIN d
         THEN IF Len(llm_chain_variables) >= 1
              THEN Ok(SetItem(d, "document_variable_name", llm_chain_variables[1]))
              ELSE Raise("ValueError: document_variable_name must be provided")
         ELSE IF d["document_variable_name"] \notin Range(llm_chain_variables)
              THEN Raise("ValueError: document_variable_name was not found")
              ELSE Ok(d)

\* get_default_document_variable_name
GetDefaultDocumentVariableName(d) ==
    IF "llm_chain" \notin DOMAIN d THEN Raise("KeyError: llm_chain")
    ELSE LET llm_chain_variables == d["llm_chain"].prompt.input_variables IN
         IF "document_variable_name" \notin DOMAIN d
         THEN IF Len(llm_chain_variables) = 1
              THEN Ok(SetItem(d, "document_variable_name", llm_chain_variables[1]))
              ELSE Raise("ValueError: document_variable_name must be provided")
         ELSE IF d["document_variable_name"] \notin Range(llm_chain_variables)
              THEN Raise("ValueError: document_variable_name was not found")
              ELSE Ok(d)

\* the declared fields, and those without a default
Fields == {"llm_chain", "reduce_documents_chain", "document_variable_name",
           "return_intermediate_steps"}
RequiredFields == {"llm_chain", "reduce_documents_chain", "document_variable_name"}

\* field validation under Config.extra = Extra.forbid
ValidateFields(d) ==
    IF ~(RequiredFields \subseteq DOMAIN d) THEN Raise("ValidationError: field required")
    ELSE IF ~(DOMAIN d \subseteq Fields)
         THEN Raise("ValidationError: extra fields not permitted")
         ELSE Ok(SetItem(d, "return_intermediate_steps",
                        IF "return_intermediate_steps" \in DOMAIN d
                        THEN d["return_intermediate_steps"] ELSE FALSE))

\* the backward-compatibility properties
Accessors == {"collapse_document_chain", "combine_document_chain"}

\* an accessor that has not been read yet
NotRead == [ok |-> FALSE, value |-> NoneValue, err |-> "not read"]

\* a property returned a chain, leaving the object self as it is
Returned(self, c) ==
    [result |-> [ok |-> TRUE, value |-> c, err |-> None], self |-> self]

\* a property raised ValueError, leaving the object self as it is
NoAttribute(self) ==
    [result |-> [ok |-> FALSE, value |-> NoneValue,
                 err |-> "ValueError: reduce_documents_chain does not have this attribute"],
     self |-> self]

\* isinstance(self.reduce_documents_chain, ReduceDocumentsChain)
IsReduceDocumentsChain(c) == c.kind = "ReduceDocumentsChain"

\* truth value of an optional chain: None is false, a chain object is true
Truthy(c) == c.kind # "NoneType"

CollapseDocumentChainNoFallback(self) ==
    IF IsReduceDocumentsChain(self["reduce_documents_chain"])
    THEN Returned(self, self["reduce_documents_chain"].collapse_documents_chain)
    ELSE NoAttribute(self)

\* the collapse_document_chain property
CollapseDocumentChain(self) ==
    IF IsReduceDocumentsChain(self["reduce_documents_chain"])
    THEN IF Truthy(self["reduce_documents_chain"].collapse_documents_chain)
         THEN Returned(self, self["reduce_documents_chain"].collapse_documents_chain)
         ELSE Returned(self, self["reduce_documents_chain"].combine_documents_chain)
    ELSE NoAttribute(self)

\* the combine_document_chain property
CombineDocumentChain(self) ==
    IF IsReduceDocumentsChain(self["reduce_documents_chain"])
    THEN Returned(self, self["reduce_documents_chain"].combine_documents_chain)
    ELSE NoAttribute(self)

\* the validators in the order the class declares them
Validators ==
    <<"get_reduce_chain", "get_return_intermediate_steps",
      "get_default_document_variable_name", "fields">>

\* an optional keyword argument: absent, or one of the values
Opt(key, vals) == {EmptyDict} \cup {(key :> x) : x \in vals}

RawArguments ==
    { a @@ b @@ c @@ d @@ e @@ f @@ g :
        a \in Opt("llm_chain", {LLMChain(vs) : vs \in SeqsUpTo(VarNames, MaxVars)}),
        b \in Opt("reduce_documents_chain",
                  {ReduceDocumentsChain(StuffChain("C0"), NoneValue), StuffChain("S")}),
        c \in Opt("combine_document_chain", {StuffChain("C")}),
        d \in Opt("collapse_document_chain", {StuffChain("K")}),
        e \in Opt("return_map_steps", BOOLEAN),
        f \in Opt("return_intermediate_steps", {TRUE}),
        g \in Opt("document_variable_name", VarNames \cup {"docs"}) }

InitConstruct ==
    /\ raw \in RawArguments
    /\ values = raw
    /\ cpc = Validators[1]
    /\ cerr = None
    /\ chain = NoChain
    /\ accessed = [a \in Accessors |-> NotRead]
    /\ docs = <<>> /\ kwargs = EmptyDict /\ llmResp = <<>>
    /\ document_variable_name = DOCUMENTS_KEY
    /\ return_intermediate_steps = FALSE
    /\ token_max = None
    /\ reduceResp = None
    /\ run = <<>>
    /\ document_prompt = None
    /\ pipe = <<>>

notCtorVars == <<legacyInputs, run, document_prompt, pipe>>

\* a pre root validator returned, or raised
AfterValidator(res, next) ==
    /\ values' = IF res.ok THEN res.values ELSE values
    /\ cpc' = IF res.ok THEN next ELSE "failed"
    /\ cerr' = res.err
    /\ UNCHANGED <<raw, chain, accessed>>

RunGetReduceChain ==
    /\ cpc = "get_reduce_chain"
    /\ AfterValidator(GetReduceChain(values), "get_return_intermediate_steps")
    /\ UNCHANGED notCtorVars

RunGetReturnIntermediateSteps ==
    /\ cpc = "get_return_intermediate_steps"
    /\ AfterValidator(GetReturnIntermediateSteps(values),
                      "get_default_document_variable_name")
    /\ UNCHANGED notCtorVars

RunGetDefaultDocumentVariableName ==
    /\ cpc = "get_default_document_variable_name"
    /\ AfterValidator(GetDefaultDocumentVariableName(values), "fields")
    /\ UNCHANGED notCtorVars

\* the fields are validated and the object is made
RunValidateFields ==
    /\ cpc = "fields"
    /\ LET res == ValidateFields(values) IN
        /\ values' = IF res.ok THEN res.values ELSE values
        /\ cpc' = IF res.ok THEN "constructed" ELSE "failed"
        /\ cerr' = res.err
        /\ chain' = IF res.ok THEN res.values ELSE chain
    /\ UNCHANGED <<raw, accessed>>
    /\ UNCHANGED notCtorVars

\* chain.collapse_document_chain is read
ReadCollapseDocumentChain ==
    /\ cpc = "constructed"
    /\ LET got == CollapseDocumentChain(chain) IN
        /\ accessed' = [accessed EXCEPT !["collapse_document_chain"] = got.result]
        /\ chain' = got.self
    /\ UNCHANGED <<raw, values, cpc, cerr>>
    /\ UNCHANGED notCtorVars

\* chain.combine_document_chain is read
ReadCombineDocumentChain ==
    /\ cpc = "constructed"
    /\ LET got == CombineDocumentChain(chain) IN
        /\ accessed' = [accessed EXCEPT !["combine_document_chain"] = got.result]
        /\ chain' = got.self
    /\ UNCHANGED <<raw, values, cpc, cerr>>
    /\ UNCHANGED notCtorVars

NextConstruct ==
    \/ RunGetReduceChain
    \/ RunGetReturnIntermediateSteps
    \/ RunGetDefaultDocumentVariableName
    \/ RunValidateFields
    \/ ReadCollapseDocumentChain
    \/ ReadCombineDocumentChain

SpecConstruct == InitConstruct /\ [][NextConstruct]_vars

(* ------------------------ claims: legacy chain ------------------------- *)

Final(v) == run[v].pc \in {"done", "failed"}

\* what llm_chain.apply / aapply answered: its list, or the error it raised
ApplyOutcome(v) ==
    IF run[v].error # <<>> /\ run[v].error[1] = "llm_chain"
    THEN [raised |-> run[v].error, list |-> <<>>]
    ELSE [raised |-> <<>>, list |-> run[v].map_results]

\* C1: for a non-empty input list and any completion order of the per-document
\* invocations, the list handed to the reduce chain has the input's length,
\* and its i-th document carries input[i].metadata and the output of the
\* invocation made for input[i].
C1_ReduceDocsAligned ==
    \A v \in Variants :
        (run[v].reduceCalls > 0 /\ Len(docs) > 0) =>
            /\ Len(run[v].reduce_args.docs) = Len(docs)
            /\ \A i \in 1..Len(docs) :
                /\ run[v].reduce_args.docs[i].metadata = docs[i].metadata
                /\ run[v].reduce_args.docs[i].page_content = llmResp[i]

\* two documents with different metadata and outputs, answered last-first
C1_Witness ==
    \E v \in Variants :
        /\ run[v].reduceCalls > 0
        /\ Len(docs) = 2
        /\ run[v].order = <<2, 1>>
        /\ docs[1].metadata # docs[2].metadata
        /\ llmResp[1] # llmResp[2]

\* C7: with return_intermediate_steps set, the returned dictionary holds under
\* "intermediate_steps" exactly one raw output per input document, in input
\* order, whatever dictionary the reduce chain returned.
C7_IntermediateSteps ==
    \A v \in Variants :
        (run[v].pc = "done" /\ return_intermediate_steps) =>
            /\ "intermediate_steps" \in DOMAIN run[v].ret.extra
            /\ run[v].ret.extra["intermediate_steps"] =
                   [i \in 1..Len(docs) |-> llmResp[i]]

\* the reduce chain's own dictionary already had an "intermediate_steps" entry
C7_Witness ==
    \E v \in Variants :
        /\ run[v].pc = "done"
        /\ return_intermediate_steps
        /\ Len(docs) = 2
        /\ llmResp[1] # llmResp[2]
        /\ "intermediate_steps" \in DOMAIN reduceResp.extra

\* C8: combine_docs and acombine_docs send the same input records to the
\* model-invocation object and, when it answers both the same, hand the same
\* documents, ceiling and extra fields to the reduce chain and end with the
\* same result, dictionary or error.
C8_SyncAsyncEquivalent ==
    (Final("sync") /\ Final("async")) =>
        /\ run["sync"].input_list = run["async"].input_list
        /\ run["sync"].applyCalls = run["async"].applyCalls
        /\ ApplyOutcome("sync") = ApplyOutcome("async") =>
            /\ run["sync"].pc = run["async"].pc
            /\ run["sync"].reduceCalls = run["async"].reduceCalls
            /\ run["sync"].reduce_args = run["async"].reduce_args
            /\ run["sync"].ret = run["async"].ret
            /\ run["sync"].error = run["async"].error

\* both variants returned, for a call whose extra fields collide with the
\* document variable
C8_Witness ==
    /\ run["sync"].pc = "done"
    /\ run["async"].pc = "done"
    /\ Len(docs) = 2
    /\ document_variable_name \in DOMAIN kwargs
    /\ "question" \in DOMAIN kwargs
    /\ return_intermediate_steps
    /\ run["sync"].order # run["async"].order

\* C9: a failed per-document invocation ends the whole operation in that
\* error: the reduce chain is not invoked afterwards, nothing is returned,
\* apply is not called again; a failure of the reduce chain is the outcome
\* unchanged.
C9_FailurePropagates ==
    \A v \in Variants :
        /\ run[v].applyCalls <= 1
        /\ run[v].reduceCalls <= 1
        /\ run[v].reduceCalls > 0 => \A i \in 1..Len(docs) : llmResp[i] # ERR
        /\ run[v].pc = "done" => (reduceResp.ok /\ run[v].error = <<>>)
        /\ run[v].pc = "failed" =>
            /\ run[v].ret = <<>>
            /\ \/ /\ run[v].error[1] = "llm_chain"
                  /\ llmResp[run[v].error[2]] = ERR
                  /\ run[v].reduceCalls = 0
               \/ /\ run[v].error = <<"reduce">>
                  /\ ~reduceResp.ok
                  /\ run[v].reduceCalls = 1
        /\ (Final(v) /\ \E i \in 1..Len(docs) : llmResp[i] = ERR) =>
               run[v].pc = "failed"
        /\ (Final(v) /\ ~reduceResp.ok) => run[v].pc = "failed"

\* the second invocation failed after the first had answered
C9_Witness ==
    \E v \in Variants :
        /\ run[v].pc = "failed"
        /\ run[v].error = <<"llm_chain", 2>>
        /\ run[v].order = <<1>>
        /\ return_intermediate_steps

\* C10 as stated: every input record maps the document variable to the
\* document's body and holds every extra field with its supplied value.
C10_Original ==
    \A v \in Variants :
        run[v].pc # "idle" =>
            \A i \in 1..Len(docs) :
                /\ run[v].input_list[i][document_variable_name] =
                       docs[i].page_content
                /\ \A k \in DOMAIN kwargs : run[v].input_list[i][k] = kwargs[k]

\* C10 amended: every input record holds every extra field with its supplied
\* value, and maps the document variable to the document's body unless an
\* extra field has that name, in which case it maps it to the extra's value.
C10_RecordContents ==
    \A v \in Variants :
        run[v].pc # "idle" =>
            /\ Len(run[v].input_list) = Len(docs)
            /\ \A i \in 1..Len(docs) :
                /\ DOMAIN run[v].input_list[i] =
                       DOMAIN kwargs \cup {document_variable_name}
                /\ \A k \in DOMAIN kwargs : run[v].input_list[i][k] = kwargs[k]
                /\ document_variable_name \notin DOMAIN kwargs =>
                       run[v].input_list[i][document_variable_name] =
                           docs[i].page_content

\* a call with an extra field named like the document variable and another one
C10_Witness ==
    \E v \in Variants :
        /\ run[v].pc # "idle"
        /\ Len(docs) = 2
        /\ document_variable_name \in DOMAIN kwargs
        /\ "question" \in DOMAIN kwargs
        /\ kwargs[document_variable_name] # docs[1].page_content

(* ------------------------ claims: LCEL factories ----------------------- *)

PipeFinal(p) == pipe[p].pc \in {"done", "failed"}

MapRaised(p) == pipe[p].error # <<>> /\ pipe[p].error[1] = "map"

\* the list map_documents_chain returns is complete
MapComplete(p) ==
    \/ "map" \in Range(pipe[p].trace)
    \/ pipe[p].mapping /\ Range(pipe[p].order) = DOMAIN pipe[p].per_doc

\* C2: for an input record holding documents d_1..d_n the map-documents chain
\* returns n documents, the i-th with the model's text response for d_i as
\* body and d_i's metadata; the input documents are left as they were.
C2_MapDocuments ==
    \A p \in Pipes :
        MapComplete(p) =>
            /\ Len(pipe[p].mapped) = Len(docs)
            /\ \A i \in 1..Len(docs) :
                /\ pipe[p].prompts[i][DOCUMENTS_KEY] = Render(docs[i])
                /\ pipe[p].mapped[i].page_content = llmResp[i]
                /\ pipe[p].mapped[i].metadata = docs[i].metadata
                /\ pipe[p].sources[i] = docs[i]
            /\ "map" \in Range(pipe[p].trace) =>
                /\ pipe[p].map_out = pipe[p].mapped
                /\ Input[DOCUMENTS_KEY] = docs

\* two different documents answered last-first, the record carrying an extra
\* field called page_content
C2_Witness ==
    \E p \in Pipes :
        /\ pipe[p].mapping
        /\ pipe[p].order = <<2, 1>>
        /\ docs[1] # docs[2]
        /\ llmResp[1] # llmResp[2]
        /\ "page_content" \in DOMAIN kwargs
        /\ document_prompt # None

\* C3: with a collapse chain configured the steps run map, collapse, reduce:
\* collapse reads the record whose document-list field map has written,
\* reduce reads the record whose field collapse has written, and a finished
\* run has run all three, in that order.
C3_StepOrder ==
    \A p \in Pipes \ {"none"} :
        /\ \E n \in 0..3 : pipe[p].trace = SubSeq(<<"map", "collapse", "reduce">>, 1, n)
        /\ "collapse" \in Range(pipe[p].trace) =>
            /\ pipe[p].collapse_in = Assign(Input, DOCUMENTS_KEY, pipe[p].map_out)
            /\ pipe[p].collapse_out = CollapseChain(p, pipe[p].collapse_in)
        /\ "reduce" \in Range(pipe[p].trace) =>
               pipe[p].reduce_in =
                   Assign(pipe[p].collapse_in, DOCUMENTS_KEY, pipe[p].collapse_out)
        /\ pipe[p].pc = "done" => pipe[p].trace = <<"map", "collapse", "reduce">>

\* a finished run whose collapse chain merged two mapped documents into one
C3_Witness ==
    /\ pipe["merge"].pc = "done"
    /\ Len(docs) = 2
    /\ Len(pipe["merge"].map_out) = 2
    /\ Len(pipe["merge"].reduce_in[DOCUMENTS_KEY]) = 1

\* C4: the chain composed without a collapse chain and the chain composed
\* with a collapse chain returning the document list unchanged hand the same
\* record to reduce and end with the same result, for the same map and reduce.
C4_NoCollapseIsIdentityCollapse ==
    (PipeFinal("none") /\ PipeFinal("identity")) =>
        IF MapRaised("none") \/ MapRaised("identity")
        THEN MapRaised("none") /\ MapRaised("identity")
        ELSE /\ pipe["none"].pc = pipe["identity"].pc
             /\ pipe["none"].reduce_in = pipe["identity"].reduce_in
             /\ pipe["none"].result = pipe["identity"].result
             /\ pipe["none"].error = pipe["identity"].error

\* both chains finished on two documents, and a collapse chain that merges
\* them does change what reduce is handed
C4_Witness ==
    /\ pipe["none"].pc = "done"
    /\ pipe["identity"].pc = "done"
    /\ pipe["merge"].pc = "done"
    /\ Len(docs) = 2
    /\ "question" \in DOMAIN kwargs
    /\ pipe["merge"].result # pipe["none"].result

(* ------------------------ claims: construction ------------------------- *)

BothGiven ==
    /\ "combine_document_chain" \in DOMAIN raw
    /\ "reduce_documents_chain" \in DOMAIN raw

\* C5: construction with both combine_document_chain and
\* reduce_documents_chain fails with a configuration error, whatever the
\* other fields are, and no chain object is produced.
C5_BothFieldsRejected ==
    BothGiven =>
        /\ cpc \in {"get_reduce_chain", "failed"}
        /\ chain = NoChain
        /\ cpc = "failed" =>
               cerr = "ValueError: both reduce_documents_chain and combine_document_chain"

\* both given, every other argument acceptable
C5_Witness ==
    /\ BothGiven
    /\ cpc = "failed"
    /\ "llm_chain" \in DOMAIN raw
    /\ raw["llm_chain"].prompt.input_variables = <<"context">>
    /\ "document_variable_name" \notin DOMAIN raw
    /\ "collapse_document_chain" \in DOMAIN raw

NameGiven == "document_variable_name" \in DOMAIN raw

PromptVariables == raw["llm_chain"].prompt.input_variables

PastNameValidation == cpc \in {"fields", "constructed"}

\* C6: without a name, construction sets it to the prompt's only input
\* variable and fails when there is not exactly one; with a name,
\* construction fails unless the name is one of the prompt's input variables;
\* a constructed chain's name is one of its prompt's input variables, and a
\* chain object exists only when construction succeeded.
C6_DocumentVariableName ==
    /\ (PastNameValidation /\ ~NameGiven) =>
           /\ Len(PromptVariables) = 1
           /\ values["document_variable_name"] = PromptVariables[1]
    /\ (PastNameValidation /\ NameGiven) =>
           /\ raw["document_variable_name"] \in Range(PromptVariables)
           /\ values["document_variable_name"] = raw["document_variable_name"]
    /\ cpc = "constructed" =>
           /\ chain["document_variable_name"] \in Range(PromptVariables)
           /\ chain["document_variable_name"] = values["document_variable_name"]
    /\ chain # NoChain => cpc = "constructed"
    /\ cerr = "ValueError: document_variable_name must be provided" =>
           (cpc = "failed" /\ ~NameGiven /\ Len(PromptVariables) # 1)
    /\ cerr = "ValueError: document_variable_name was not found" =>
           /\ cpc = "failed" /\ NameGiven
           /\ raw["document_variable_name"] \notin Range(PromptVariables)

\* a chain constructed without a name from a prompt with one input variable
C6_Witness ==
    /\ cpc = "constructed"
    /\ ~NameGiven
    /\ PromptVariables = <<"question">>
    /\ chain["document_variable_name"] = "question"

LegacyGiven == "combine_document_chain" \in DOMAIN raw

WasRead(a) == accessed[a] # NotRead

\* C11: a chain constructed from the legacy combine_document_chain C (and no
\* reduce_documents_chain) has a composite reduce chain; its combine accessor
\* returns C, its collapse accessor returns the legacy collapse_document_chain
\* when one was supplied and C otherwise; on a chain whose reduce chain is not
\* composite both accessors raise and return no chain; reading an accessor
\* leaves the chain as construction made it.
C11_LegacyRoundTrip ==
    cpc = "constructed" =>
        /\ chain = values
        /\ LegacyGiven =>
            /\ "reduce_documents_chain" \notin DOMAIN raw
            /\ IsReduceDocumentsChain(chain["reduce_documents_chain"])
            /\ WasRead("combine_document_chain") =>
                /\ accessed["combine_document_chain"].ok
                /\ accessed["combine_document_chain"].value =
                       raw["combine_document_chain"]
            /\ WasRead("collapse_document_chain") =>
                /\ accessed["collapse_document_chain"].ok
                /\ accessed["collapse_document_chain"].value =
                       IF "collapse_document_chain" \in DOMAIN raw
                       THEN raw["collapse_document_chain"]
                       ELSE raw["combine_document_chain"]
        /\ ~IsReduceDocumentsChain(chain["reduce_documents_chain"]) =>
            \A a \in Accessors :
                WasRead(a) =>
                    /\ ~accessed[a].ok
                    /\ accessed[a].value = NoneValue
                    /\ accessed[a].err =
                           "ValueError: reduce_documents_chain does not have this attribute"

\* a chain built from the legacy combine chain alone, both accessors read
C11_Witness ==
    /\ cpc = "constructed"
    /\ LegacyGiven
    /\ "collapse_document_chain" \notin DOMAIN raw
    /\ \A a \in Accessors : WasRead(a) /\ accessed[a].value = StuffChain("C")

====
